---- MODULE Spec2Model ----
(***************************************************************************)
(* Kayak Wind Advisor (src/app.py): one run of the Streamlit page.         *)
(*                                                                         *)
(* Units.  Wind speeds are held in tenths of mph (10.1 mph is 101), the    *)
(* resolution of the forecast feed, so that non-integer winds are part of  *)
(* the model.  Thresholds of compute_status are scaled the same way        *)
(* (16 mph is 160).  A score "in tenths" is 10 times the float the code    *)
(* holds; an average over 3 samples is held as its numerator over 30       *)
(* (sum of the three values in tenths), which orders exactly as the        *)
(* quotient does.  float("nan") is the value NaN; real winds are >= 0.     *)
(* The timestamp of the i-th hourly entry (0-based) is the number i.       *)
(***************************************************************************)
EXTENDS Integers, Sequences, FiniteSets, TLC

\* ---------------------------------------------------------------- bounds
MaxLen == 4
MaxPairLen == 2

\* ------------------------------------------------------------- constants
NaN == -1

NoGoSustained == 160
NoGoGust == 230
CautionSustained == 110
CautionGust == 160
OffshoreBonus == 10
BigWaterBonus == 8

\* ------------------------------------------------------ input data sets
\* Hourly entries of the chosen day as the forecast feed may return them.
DaySamples ==
    { [s |-> 80,  g |-> 120, d |-> 90],
      [s |-> 120, g |-> 180, d |-> 90],
      [s |-> 60,  g |-> 90,  d |-> 90],
      [s |-> 1,   g |-> 161, d |-> 90],
      [s |-> NaN, g |-> 50,  d |-> 90],
      [s |-> 50,  g |-> 50,  d |-> NaN] }

\* Valid entries on a grid around the tier boundaries.
ClassifySamples ==
    { [s |-> a, g |-> b, d |-> 90] : a \in {0, 100, 101, 110, 160},
                                     b \in {0, 150, 151, 160, 230} }

SeqsUpTo(S, n) == UNION { [1..k -> S] : k \in 0..n }

DaySeqs == SeqsUpTo(DaySamples, MaxLen)
ClassifySeqs == SeqsUpTo(ClassifySamples, MaxPairLen)

\* ------------------------------------------------------- pure functions
Max(a, b) == IF a >= b THEN a ELSE b
Min(a, b) == IF a <= b THEN a ELSE b

\* v != v
isnan(v) == v = NaN

\* int(round(x)) of a non-negative float given in tenths: Python 3 rounds
\* halves to the even neighbour.
round_int(x10) ==
    LET q == x10 \div 10
        r == x10 % 10
    IN  IF r < 5 THEN q
        ELSE IF r > 5 THEN q + 1
        ELSE IF q % 2 = 0 THEN q ELSE q + 1

rank_map(status) ==
    CASE status = "GO" -> 0
      [] status = "CAUTION" -> 1
      [] status = "DO NOT GO" -> 2

\* compute_status with the gust thresholds applied to gust - sustained
compute_status_gustiness(sustained_mph, gust_mph, offshore_, big_water_) ==
    LET gustiness == Max(0, gust_mph - sustained_mph)
        base == IF sustained_mph >= NoGoSustained \/ gustiness >= NoGoGust
                THEN "DO NOT GO"
                ELSE IF sustained_mph >= CautionSustained \/ gustiness >= CautionGust
                     THEN "CAUTION"
                     ELSE "GO"
        bump(st) == IF st = "GO" THEN "CAUTION" ELSE "DO NOT GO"
        afterOff == IF base # "DO NOT GO" /\ offshore_ THEN bump(base) ELSE base
        afterBig == IF base # "DO NOT GO" /\ big_water_ THEN bump(afterOff) ELSE afterOff
    IN  afterBig

compute_status(sustained_mph, gust_mph, offshore_, big_water_) ==
    LET base == IF sustained_mph >= NoGoSustained \/ gust_mph >= NoGoGust
                THEN "DO NOT GO"
                ELSE IF sustained_mph >= CautionSustained \/ gust_mph >= CautionGust
                     THEN "CAUTION"
                     ELSE "GO"
        bump(st) == IF st = "GO" THEN "CAUTION" ELSE "DO NOT GO"
        afterOff == IF base # "DO NOT GO" /\ offshore_ THEN bump(base) ELSE base
        afterBig == IF base # "DO NOT GO" /\ big_water_ THEN bump(afterOff) ELSE afterOff
    IN  afterBig

\* 4.0 * s + 2.0 * max(0.0, g - s), in tenths
wind_score(s, g) == 4 * s + 2 * Max(0, g - s)

\* score of the worst-hour scan: an integer
hour_score(s, g, offshore_, big_water_) ==
    round_int(wind_score(s, g))
      + (IF offshore_ THEN OffshoreBonus ELSE 0)
      + (IF big_water_ THEN BigWaterBonus ELSE 0)

\* the validity filter without the direction test
sample_invalid_no_dir(x) == isnan(x.s) \/ isnan(x.g)

\* the validity filter of the worst-hour scan and of the hourly table
sample_invalid(x) == isnan(x.s) \/ isnan(x.g) \/ isnan(x.d)

\* ------------------------------------------------------ worst-hour scan
scan_init == [status |-> "GO", i |-> 0, score |-> -1, reason |-> <<>>]

\* the scan iteration with >= in the score tie-break
scan_step_ge(w, i, h, offshore_, big_water_) ==
    LET x == h[i + 1] IN
    IF sample_invalid(x) THEN w
    ELSE LET st_i == compute_status(x.s, x.g, offshore_, big_water_)
             score == hour_score(x.s, x.g, offshore_, big_water_)
         IN  IF rank_map(st_i) > rank_map(w.status)
                \/ (rank_map(st_i) = rank_map(w.status) /\ score >= w.score)
             THEN [status |-> st_i, i |-> i, score |-> score,
                   reason |-> <<round_int(x.s), round_int(x.g)>>]
             ELSE w

\* One iteration of the scan loop at 0-based index i; w is
\* (worst_status, worst_i, worst_score, worst_reason).
scan_step(w, i, h, offshore_, big_water_) ==
    LET x == h[i + 1] IN
    IF sample_invalid(x) THEN w
    ELSE LET st_i == compute_status(x.s, x.g, offshore_, big_water_)
             score == hour_score(x.s, x.g, offshore_, big_water_)
         IN  IF rank_map(st_i) > rank_map(w.status)
                \/ (rank_map(st_i) = rank_map(w.status) /\ score > w.score)
             THEN [status |-> st_i, i |-> i, score |-> score,
                   reason |-> <<round_int(x.s), round_int(x.g)>>]
             ELSE w

worst_hour_scan(h, offshore_, big_water_) ==
    LET f[k \in 0..Len(h)] ==
            IF k = 0 THEN scan_init
            ELSE scan_step(f[k - 1], k - 1, h, offshore_, big_water_)
    IN  f[Len(h)]

\* ---------------------------------------------------- worst 3-hour window
\* the NaN test of worst_3hr_window on a window starting at 0-based i
window_skipped(sus, gus, i) ==
    \E k \in (i + 1)..(i + 3) : isnan(sus[k]) \/ isnan(gus[k])

window_at(times, sus, gus, i) ==
    [start |-> times[i + 1],
     end |-> times[i + 3],
     avg_score |-> wind_score(sus[i + 1], gus[i + 1])
                   + wind_score(sus[i + 2], gus[i + 2])
                   + wind_score(sus[i + 3], gus[i + 3]),
     sustained_avg |-> sus[i + 1] + sus[i + 2] + sus[i + 3],
     gust_avg |-> gus[i + 1] + gus[i + 2] + gus[i + 3]]

\* the window update with >= in the comparison
keep_best_ge(best, cand) ==
    IF best = <<>> \/ cand.avg_score >= best[1].avg_score
    THEN <<cand>> ELSE best

\* best is <<>> (None) or <<window>>
keep_best(best, cand) ==
    IF best = <<>> \/ cand.avg_score > best[1].avg_score
    THEN <<cand>> ELSE best

worst_3hr_window(times, sus, gus) ==
    LET n == Min(Len(times), Min(Len(sus), Len(gus))) IN
    IF n < 3 THEN <<>>
    ELSE LET f[k \in 0..(n - 2)] ==
                 IF k = 0 THEN <<>>
                 ELSE IF window_skipped(sus, gus, k - 1) THEN f[k - 1]
                 ELSE keep_best(f[k - 1], window_at(times, sus, gus, k - 1))
         IN  f[n - 2]

\* ---------------------------------------------------------------- state
VARIABLES
    pc,            \* position of the script
    has_coords,    \* lat and lon were read from the query parameters
    query_given,   \* place_query.strip() is not empty
    offshore, big_water,
    calls,         \* collaborator calls made so far, in order
    failed,        \* the collaborator call that raised, or "none"
    errors,        \* number of st.error messages shown
    notices,       \* st.warning / st.info messages shown
    hourly,        \* the hourly entries of the chosen day
    worst,         \* worst_status, worst_i, worst_score, worst_reason
    card,          \* <<>> or <<decision card>>
    rows,          \* rows of the hourly table
    ww,            \* result of worst_3hr_window
    window_shown,  \* the worst-window message was rendered
    outcome        \* "running", "stopped", "error" or "rendered"

vars == <<pc, has_coords, query_given, offshore, big_water, calls, failed,
          errors, notices, hourly, worst, card, rows, ww, window_shown,
          outcome>>

inputs == <<has_coords, query_given, offshore, big_water>>
render == <<worst, card, rows, ww, window_shown>>

times_of(h) == [i \in 1..Len(h) |-> i - 1]
sustained_of(h) == [i \in 1..Len(h) |-> h[i].s]
gusts_of(h) == [i \in 1..Len(h) |-> h[i].g]

Init ==
    /\ pc = "resolve"
    /\ has_coords \in BOOLEAN
    /\ query_given \in BOOLEAN
    /\ offshore \in BOOLEAN
    /\ big_water \in BOOLEAN
    /\ calls = <<>>
    /\ failed = "none"
    /\ errors = 0
    /\ notices = {}
    /\ hourly = <<>>
    /\ worst = scan_init
    /\ card = <<>>
    /\ rows = <<>>
    /\ ww = <<>>
    /\ window_shown = FALSE
    /\ outcome = "running"

\* http_get_json raised RuntimeError inside collaborator c: the handler at
\* the end of the script shows the message and the run is over.
Raise(c) ==
    /\ failed' = c
    /\ errors' = errors + 1
    /\ outcome' = "error"
    /\ pc' = "done"

\* the reverse lookup with its failure swallowed: falls back to the search
ReverseGeocode_swallow ==
    /\ pc = "resolve"
    /\ IF ~has_coords
       THEN /\ pc' = "search"
            /\ UNCHANGED <<calls, failed, errors, notices, outcome>>
       ELSE /\ calls' = Append(calls, "reverse")
            /\ \E resp \in {"fail", "none", "ok"} :
                  CASE resp = "fail" -> /\ failed' = "reverse"
                                        /\ pc' = "search"
                                        /\ UNCHANGED <<errors, notices, outcome>>
                    [] resp = "none" -> /\ notices' = notices \cup {"not_confirmed"}
                                        /\ pc' = "search"
                                        /\ UNCHANGED <<failed, errors, outcome>>
                    [] resp = "ok"   -> /\ pc' = "fetch"
                                        /\ UNCHANGED <<failed, errors, notices, outcome>>
    /\ UNCHANGED <<inputs, hourly, render>>

\* 1) current location, if available
ReverseGeocode ==
    /\ pc = "resolve"
    /\ IF ~has_coords
       THEN /\ pc' = "search"
            /\ UNCHANGED <<calls, failed, errors, notices, outcome>>
       ELSE /\ calls' = Append(calls, "reverse")
            /\ \E resp \in {"fail", "none", "ok"} :
                  CASE resp = "fail" -> Raise("reverse") /\ UNCHANGED notices
                    [] resp = "none" -> /\ notices' = notices \cup {"not_confirmed"}
                                        /\ pc' = "search"
                                        /\ UNCHANGED <<failed, errors, outcome>>
                    [] resp = "ok"   -> /\ pc' = "fetch"
                                        /\ UNCHANGED <<failed, errors, notices, outcome>>
    /\ UNCHANGED <<inputs, hourly, render>>

\* 2) fallback to the search by name
PlaceSearch ==
    /\ pc = "search"
    /\ IF ~query_given
       THEN /\ notices' = notices \cup {"enter_place"}
            /\ outcome' = "stopped"
            /\ pc' = "done"
            /\ UNCHANGED <<calls, failed, errors>>
       ELSE /\ calls' = Append(calls, "geocode")
            /\ \E resp \in {"fail", "empty", "ok"} :
                  CASE resp = "fail"  -> Raise("geocode") /\ UNCHANGED notices
                    [] resp = "empty" -> /\ errors' = errors + 1
                                         /\ outcome' = "stopped"
                                         /\ pc' = "done"
                                         /\ UNCHANGED <<failed, notices>>
                    [] resp = "ok"    -> /\ pc' = "fetch"
                                         /\ UNCHANGED <<failed, errors, notices, outcome>>
    /\ UNCHANGED <<inputs, hourly, render>>

\* fetch_forecast, filter_to_day and the no-hourly-data guard.  D is the set
\* of day sequences the feed may return: h is the feed's hourly series cut
\* down to the entries of the chosen date, its wind, gust and direction
\* arrays parallel to its time array, a null value read as NaN.
Fetch(D) ==
    /\ pc = "fetch"
    /\ calls' = Append(calls, "forecast")
    /\ \/ Raise("forecast") /\ UNCHANGED <<notices, hourly>>
       \/ \E h \in D :
            /\ hourly' = h
            /\ IF Len(h) = 0
               THEN /\ notices' = notices \cup {"no_hourly"}
                    /\ outcome' = "stopped"
                    /\ pc' = "done"
               ELSE /\ pc' = "scan"
                    /\ UNCHANGED <<notices, outcome>>
            /\ UNCHANGED <<failed, errors>>
    /\ UNCHANGED <<inputs, render>>

FetchForecast == Fetch(DaySeqs)
FetchForecastGrid == Fetch(ClassifySeqs)

\* day-level status: worst hour
Scan ==
    /\ pc = "scan"
    /\ worst' = worst_hour_scan(hourly, offshore, big_water)
    /\ pc' = "card"
    /\ UNCHANGED <<inputs, calls, failed, errors, notices, hourly, card, rows,
                   ww, window_shown, outcome>>

\* top decision card; deg_to_compass(nan) raises ValueError, which the
\* handler at the end of the script shows as "Unexpected error"
DecisionCard ==
    /\ pc = "card"
    /\ IF isnan(hourly[worst.i + 1].d)
       THEN /\ errors' = errors + 1
            /\ outcome' = "error"
            /\ pc' = "done"
            /\ UNCHANGED card
       ELSE /\ card' = <<[status |-> worst.status, reason |-> worst.reason,
                          hour |-> times_of(hourly)[worst.i + 1]]>>
            /\ pc' = "table"
            /\ UNCHANGED <<errors, outcome>>
    /\ UNCHANGED <<inputs, calls, failed, notices, hourly, worst, rows, ww,
                   window_shown>>

\* hourly table: one rated row per valid entry (the daily summary row and
\* the chart around it read only the daily series and the raw lists)
table_rows(h, offshore_, big_water_) ==
    LET f[k \in 0..Len(h)] ==
            IF k = 0 THEN <<>>
            ELSE IF sample_invalid(h[k]) THEN f[k - 1]
            ELSE Append(f[k - 1],
                        [time |-> times_of(h)[k], s |-> h[k].s, g |-> h[k].g,
                         rating |-> compute_status(h[k].s, h[k].g, offshore_, big_water_)])
    IN  f[Len(h)]

HourlyTable ==
    /\ pc = "table"
    /\ rows' = table_rows(hourly, offshore, big_water)
    /\ pc' = "window"
    /\ UNCHANGED <<inputs, calls, failed, errors, notices, hourly, worst, card,
                   ww, window_shown, outcome>>

\* the worst 3-hour window message; the script ends after the notes
WorstWindow ==
    /\ pc = "window"
    /\ ww' = worst_3hr_window(times_of(hourly), sustained_of(hourly), gusts_of(hourly))
    /\ window_shown' = (ww' # <<>>)
    /\ outcome' = "rendered"
    /\ pc' = "done"
    /\ UNCHANGED <<inputs, calls, failed, errors, notices, hourly, worst, card,
                   rows>>

Next ==
    \/ ReverseGeocode
    \/ PlaceSearch
    \/ FetchForecast
    \/ Scan
    \/ DecisionCard
    \/ HourlyTable
    \/ WorstWindow

NextGrid ==
    \/ ReverseGeocode
    \/ PlaceSearch
    \/ FetchForecastGrid
    \/ Scan
    \/ DecisionCard
    \/ HourlyTable
    \/ WorstWindow

Spec == Init /\ [][Next]_vars
SpecGrid == Init /\ [][NextGrid]_vars

\* ------------------------------------------------------------ properties
\* What the statements below mean by their terms, written independently of
\* the operators above.
TierGO == "GO"
TierCAUTION == "CAUTION"
TierDNG == "DO NOT GO"

StatedInvalid(x) == x.s = NaN \/ x.g = NaN \/ x.d = NaN
StatedValid(k) == ~StatedInvalid(hourly[k])
ValidIdx == { k \in 1..Len(hourly) : StatedValid(k) }

\* round(4*sustained + 2*max(0, gust - sustained)), winds in tenths
StatedWindScore(x) ==
    LET raw == 4 * x.s + 2 * (IF x.g > x.s THEN x.g - x.s ELSE 0)
        q == raw \div 10
        r == raw % 10
    IN  IF r < 5 THEN q ELSE IF r > 5 THEN q + 1 ELSE IF q % 2 = 0 THEN q ELSE q + 1

StatedScore(k) ==
    StatedWindScore(hourly[k]) + (IF offshore THEN 10 ELSE 0)
                               + (IF big_water THEN 8 ELSE 0)

StatedTier(k) == compute_status(hourly[k].s, hourly[k].g, offshore, big_water)

\* sample a ranks strictly above sample b in (tier, score) order
Above(a, b) ==
    \/ rank_map(StatedTier(a)) > rank_map(StatedTier(b))
    \/ /\ rank_map(StatedTier(a)) = rank_map(StatedTier(b))
       /\ StatedScore(a) > StatedScore(b)

Scanned == pc \in {"card", "table", "window"} \/ (pc = "done" /\ Len(hourly) > 0)
Tabled == pc = "window" \/ (pc = "done" /\ outcome = "rendered")
Windowed == pc = "done" /\ outcome = "rendered"

\* the tier rule as stated, thresholds in tenths of mph
StatedBaseTier(s, g) ==
    IF s >= 160 \/ g >= 230 THEN TierDNG
    ELSE IF s > 100 \/ g > 150 THEN TierCAUTION
    ELSE TierGO

\* C1: with both modifiers off every rated hour has the tier DO NOT GO if
\* sustained >= 16 or gust >= 23, else CAUTION if sustained > 10 or
\* gust > 15, else GO, non-integer winds included.
C1_BaseTiers ==
    (Tabled /\ ~offshore /\ ~big_water) =>
        \A k \in 1..Len(rows) :
            rows[k].rating = StatedBaseTier(rows[k].s, rows[k].g)

\* C2: modifiers escalate once: a rated hour is at most one tier above its
\* base tier (never past DO NOT GO), and a base GO with offshore and
\* big_water both active is CAUTION.
C2_EscalatesOnce ==
    Tabled =>
        \A k \in 1..Len(rows) :
            LET base == compute_status(rows[k].s, rows[k].g, FALSE, FALSE) IN
            /\ rank_map(rows[k].rating) <= Min(2, rank_map(base) + 1)
            /\ (base = TierGO /\ offshore /\ big_water) => rows[k].rating = TierCAUTION

\* C3: for a fixed modifier setting the tier does not decrease when the
\* sustained wind increases with the gust fixed, nor when the gust
\* increases with the sustained wind fixed.
C3_Monotonic ==
    Tabled =>
        \A a, b \in 1..Len(rows) :
            /\ (rows[a].g = rows[b].g /\ rows[a].s <= rows[b].s)
                   => rank_map(rows[a].rating) <= rank_map(rows[b].rating)
            /\ (rows[a].s = rows[b].s /\ rows[a].g <= rows[b].g)
                   => rank_map(rows[a].rating) <= rank_map(rows[b].rating)

C3_Witness ==
    /\ Tabled
    /\ offshore
    /\ \E a, b \in 1..Len(rows) :
           /\ rows[a].g = rows[b].g
           /\ rows[a].s < rows[b].s
           /\ rank_map(rows[a].rating) < rank_map(rows[b].rating)

\* C4: with at least one valid sample the scan ends on the earliest valid
\* index whose (tier, score) is lexicographically maximal over the valid
\* samples, with that sample's tier and score.
C4_WorstHour ==
    (Scanned /\ ValidIdx # {}) =>
        LET w == worst.i + 1 IN
        /\ w \in ValidIdx
        /\ \A j \in ValidIdx : ~Above(j, w)
        /\ \A j \in ValidIdx : j < w => Above(w, j)
        /\ worst.status = StatedTier(w)
        /\ worst.score = StatedScore(w)

C4_Witness ==
    /\ Scanned
    /\ worst.i >= 1
    /\ StatedInvalid(hourly[1])
    /\ \E j \in ValidIdx :
           /\ j > worst.i + 1
           /\ StatedTier(j) = worst.status
           /\ StatedScore(j) = worst.score

\* C5: when every sample of the day is invalid the scan ends with
\* worst_status GO, worst_i 0 and an empty worst_reason.
C5_AllInvalidSentinel ==
    (Scanned /\ ValidIdx = {}) =>
        /\ worst.status = TierGO
        /\ worst.i = 0
        /\ worst.reason = <<>>

C5_Witness ==
    /\ Scanned
    /\ ValidIdx = {}
    /\ \E k \in 1..Len(hourly) : hourly[k].s = NaN
    /\ \E k \in 1..Len(hourly) : hourly[k].d = NaN /\ hourly[k].s # NaN

\* C6: a decision card showing GO is rendered only if some valid sample
\* was classified; a day with no entries or only invalid entries ends in
\* the no-data outcome.
C6_GoNeedsData ==
    /\ (card # <<>> /\ card[1].status = TierGO) => ValidIdx # {}
    /\ (pc = "done" /\ failed = "none" /\ hourly # <<>> /\ ValidIdx = {})
           => outcome = "stopped"

\* C7: a failed collaborator call ends the run: it is the last call made,
\* no call is made twice, nothing of the result is rendered and exactly one
\* error message is shown.
C7_FailureAborts ==
    failed # "none" =>
        /\ pc = "done"
        /\ outcome = "error"
        /\ errors = 1
        /\ calls # <<>>
        /\ calls[Len(calls)] = failed
        /\ \A a, b \in 1..Len(calls) : calls[a] = calls[b] => a = b
        /\ card = <<>>
        /\ rows = <<>>
        /\ ww = <<>>
        /\ ~window_shown

C7_Witness ==
    /\ failed = "geocode"
    /\ calls = <<"reverse", "geocode">>
    /\ "not_confirmed" \in notices

\* windows of the day by 0-based start index
WindowStarts == { i \in 0..(Len(hourly) - 3) : Len(hourly) >= 3 }
Members(i) == (i + 1)..(i + 3)
\* a window worst_3hr_window does not skip: no NaN wind value
WindQualifies(i) == \A k \in Members(i) : hourly[k].s # NaN /\ hourly[k].g # NaN
RawScore(k) == 4 * hourly[k].s + 2 * (IF hourly[k].g > hourly[k].s
                                      THEN hourly[k].g - hourly[k].s ELSE 0)
\* three times the average score of window i, in tenths
AvgTimes3(i) == RawScore(i + 1) + RawScore(i + 2) + RawScore(i + 3)

C9_WindowValidity ==
    Windowed =>
        /\ ww # <<>> => \A k \in (ww[1].start + 1)..(ww[1].end + 1) : StatedValid(k)
        /\ ww = <<>> <=> ~(\E i \in WindowStarts : \A k \in Members(i) : StatedValid(k))

\* C10: avg_score of a returned window is the mean of the three integer
\* per-sample scores round(4*sustained + 2*max(0, gust - sustained)); on
\* (8,12), (12,18), (6,9) their sum is 130.
C10_AvgOfScores ==
    (Windowed /\ ww # <<>>) =>
        LET i == ww[1].start IN
        /\ ww[1].avg_score = 10 * (StatedWindScore(hourly[i + 1])
                                   + StatedWindScore(hourly[i + 2])
                                   + StatedWindScore(hourly[i + 3]))
        /\ hourly = << [s |-> 80, g |-> 120, d |-> 90],
                       [s |-> 120, g |-> 180, d |-> 90],
                       [s |-> 60, g |-> 90, d |-> 90] >>
               => ww[1].avg_score = 1300

====
